---- MODULE Spec2Model ----
(***************************************************************************)
(* A model of smart-test-runner's two scripts:                             *)
(*   scripts/parse_test_output.py  detect_framework, classify_failure,     *)
(*                                 parse_jest/pytest/go/playwright,        *)
(*                                 parse_output                            *)
(*   scripts/list_tests.py         list_jest/pytest/go/playwright_tests,   *)
(*                                 generate_remaining_tests                *)
(*                                                                         *)
(* Every operation of the scripts is a function of its arguments and, for  *)
(* a lister, of what the listing tool and the file system answer, so the   *)
(* state is one call: the arguments, the answers, the operation applied    *)
(* and what it returned or raised.  Texts are TLA+ strings read character  *)
(* by character (SubSeq(s, i, i)); the regular expressions of the source   *)
(* are                                                                     *)
(* written as syntax trees and run by a matcher that lists the ways a      *)
(* pattern matches in the order Python's re tries them (leftmost match,    *)
(* greedy and lazy quantifiers, lookahead) and takes the first.            *)
(*                                                                         *)
(* TLA+ strings are ASCII.  The non-ASCII marks of the reports are written *)
(* with one ASCII character each, which the model's alphabet uses for      *)
(* nothing else:                                                           *)
(*     #  U+2715 (heavy cross, jest/cypress failed test)                   *)
(*     %  U+00D7 (multiplication sign, vitest failed test)                 *)
(*     @  U+25CF (black circle, jest failure detail header)                *)
(*     ~  U+2713 (check mark, passed test)                                 *)
(*     >  U+203A (single right angle quote, playwright title separator)    *)
(*     ^  U+25EF (large circle, playwright listed test)                    *)
(* None of the six is a letter, a digit, a dot or white space, like the    *)
(* characters they stand for.                                              *)
(***************************************************************************)
EXTENDS Integers, Sequences, FiniteSets, TLC

VARIABLES
  op,             \* the operation called, "init" before the call
  output,         \* the text handed to the detector and the extractors
  framework,      \* parse_output's framework argument: None or Some(tag)
  error_message,  \* classify_failure's argument
  test_list,      \* generate_remaining_tests' TestList argument
  failed_index,   \* generate_remaining_tests' failed_index argument
  env,            \* what a lister meets: its path argument, what each run of
                  \* the listing tool does, the files a scan of path finds
  ret             \* [exc, val]: the exception raised ("none": returned val)

vars == <<op, output, framework, error_message, test_list, failed_index, env, ret>>

(***************************************************************************)
(* Python values.                                                          *)
(***************************************************************************)
\* Optional[T]: None, or a value.
None == <<>>
Some(v) == <<v>>

\* What a call does: it returns a value, or raises.
Return(v) == [exc |-> "none", val |-> v]
Raise(e) == [exc |-> e, val |-> None]

\* s[i] as a one-character string.
Char(s, i) == SubSeq(s, i, i)

\* s[i:], from position i (1-based) to the end.
From(s, i) == IF i > Len(s) THEN "" ELSE SubSeq(s, i, Len(s))

Digits == {"0", "1", "2", "3", "4", "5", "6", "7", "8", "9"}
Whitespace == {" ", "\t", "\n", "\r", "\f"}
UpperCase == {"A", "B", "C", "D", "E", "F", "G", "H", "I", "J", "K", "L", "M",
              "N", "O", "P", "Q", "R", "S", "T", "U", "V", "W", "X", "Y", "Z"}

LowerTab == [c \in UpperCase |->
  CASE c = "A" -> "a" [] c = "B" -> "b" [] c = "C" -> "c" [] c = "D" -> "d"
    [] c = "E" -> "e" [] c = "F" -> "f" [] c = "G" -> "g" [] c = "H" -> "h"
    [] c = "I" -> "i" [] c = "J" -> "j" [] c = "K" -> "k" [] c = "L" -> "l"
    [] c = "M" -> "m" [] c = "N" -> "n" [] c = "O" -> "o" [] c = "P" -> "p"
    [] c = "Q" -> "q" [] c = "R" -> "r" [] c = "S" -> "s" [] c = "T" -> "t"
    [] c = "U" -> "u" [] c = "V" -> "v" [] c = "W" -> "w" [] c = "X" -> "x"
    [] c = "Y" -> "y" [] c = "Z" -> "z"]

RECURSIVE LowerRange(_, _, _)
\* s[lo..hi] in lower case (by halves: the characters one by one).
LowerRange(s, lo, hi) ==
  IF lo > hi THEN ""
  ELSE IF lo = hi
       THEN (IF Char(s, lo) \in UpperCase THEN LowerTab[Char(s, lo)] ELSE Char(s, lo))
       ELSE LowerRange(s, lo, (lo + hi) \div 2) \o LowerRange(s, (lo + hi) \div 2 + 1, hi)

\* str.lower()
lower(s) == LowerRange(s, 1, Len(s))

\* kw in s: kw occurs in s as a substring.
Contains(s, kw) ==
  \E i \in 1..(Len(s) - Len(kw) + 1) : SubSeq(s, i, i + Len(kw) - 1) = kw

RECURSIVE LStrip(_, _)
LStrip(s, i) == IF i <= Len(s) /\ Char(s, i) \in Whitespace THEN LStrip(s, i + 1) ELSE i
RECURSIVE RStrip(_, _)
RStrip(s, j) == IF j >= 1 /\ Char(s, j) \in Whitespace THEN RStrip(s, j - 1) ELSE j

\* str.strip(): without the white space at both ends.
strip(s) ==
  LET i == LStrip(s, 1)
      j == RStrip(s, Len(s))
  IN IF i > j THEN "" ELSE SubSeq(s, i, j)

\* s.split("\n"): the lines of s, one more than its line breaks.
split(s) ==
  LET breaks == {i \in 1..Len(s) : Char(s, i) = "\n"}
      \* the position of the k-th line break; 0 and Len(s) + 1 bound the text
      Break(k) == IF k = 0 THEN 0
                  ELSE IF k > Cardinality(breaks) THEN Len(s) + 1
                  ELSE CHOOSE i \in breaks : Cardinality({j \in breaks : j < i}) = k - 1
  IN [k \in 1..(Cardinality(breaks) + 1) |->
        IF Break(k - 1) + 1 > Break(k) - 1 THEN "" ELSE SubSeq(s, Break(k - 1) + 1, Break(k) - 1)]

\* s[:n]
Prefix(s, n) == IF Len(s) <= n THEN s ELSE SubSeq(s, 1, n)

DigitVal(c) ==
  CASE c = "0" -> 0 [] c = "1" -> 1 [] c = "2" -> 2 [] c = "3" -> 3 [] c = "4" -> 4
    [] c = "5" -> 5 [] c = "6" -> 6 [] c = "7" -> 7 [] c = "8" -> 8 [] c = "9" -> 9

RECURSIVE IntUpTo(_, _)
IntUpTo(s, n) == IF n = 0 THEN 0 ELSE 10 * IntUpTo(s, n - 1) + DigitVal(Char(s, n))

\* int(s) of a string of decimal digits (what \d+ captures).
int(s) == IntUpTo(s, Len(s))

RECURSIVE JoinFrom(_, _, _)
JoinFrom(sep, strs, i) ==
  IF i > Len(strs) THEN ""
  ELSE IF i = Len(strs) THEN strs[i]
  ELSE strs[i] \o sep \o JoinFrom(sep, strs, i + 1)

\* sep.join(strs)
join(sep, strs) == JoinFrom(sep, strs, 1)

(***************************************************************************)
(* Python's re, for the syntax the source's patterns use.  A pattern is a  *)
(* sequence of nodes.  re matches by backtracking: at a quantifier or an   *)
(* alternation it takes the first choice and returns to the next one when  *)
(* the rest of the pattern fails.  The matcher keeps the ways the pattern  *)
(* has matched so far as a list in that order of choice, so that the first *)
(* way that reaches the end of the pattern is the match re returns.        *)
(***************************************************************************)
\* Character classes: \d, \s, \S, . (no line break), . under DOTALL,
\* [\d.], [<U+00D7><U+2715>], [<U+00D7><U+2715><U+25CF>].
InClass(c, ch) ==
  CASE c = "\\d" -> ch \in Digits
    [] c = "\\s" -> ch \in Whitespace
    [] c = "\\S" -> ch \notin Whitespace
    [] c = "." -> ch # "\n"
    [] c = "(?s)." -> TRUE
    [] c = "[\\d.]" -> ch \in Digits \cup {"."}
    [] c = "[%#]" -> ch \in {"%", "#"}
    [] c = "[%#@]" -> ch \in {"%", "#", "@"}
    [] c = "[~^]" -> ch \in {"~", "^"}

Lit(x) == [t |-> "lit", s |-> x]                                \* literal text
Star(c) == [t |-> "rep", c |-> c, min |-> 0, lazy |-> FALSE]    \* c*
Plus(c) == [t |-> "rep", c |-> c, min |-> 1, lazy |-> FALSE]    \* c+
LazyStar(c) == [t |-> "rep", c |-> c, min |-> 0, lazy |-> TRUE] \* c*?
LazyPlus(c) == [t |-> "rep", c |-> c, min |-> 1, lazy |-> TRUE] \* c+?
Group(g, body) == [t |-> "grp", g |-> g, n |-> body]            \* (body), group g
Alt(alts) == [t |-> "alt", a |-> alts]                          \* (?:a1|a2|...)
Opt(body) == [t |-> "alt", a |-> <<body, <<>>>>]                \* (?:body)?
Lookahead(alts) == [t |-> "look", a |-> alts]                   \* (?=a1|a2|...)
One(c) == [t |-> "one", c |-> c]                                \* one character of c
EndOfString == [t |-> "eos"]                                    \* \Z
EndOfLine == [t |-> "eol"]                                      \* $ under MULTILINE

NoMatch == [ok |-> FALSE]
\* The groups of a match that has not entered any: the source's patterns
\* have at most five.
NoGroups == [g \in 1..5 |-> <<0, 0>>]

RECURSIVE FirstIndex(_, _, _)
\* The first k of lo..hi with P(k), and hi + 1 when there is none (by halves,
\* in order).
FirstIndex(P(_), lo, hi) ==
  IF lo > hi THEN hi + 1
  ELSE IF lo = hi THEN (IF P(lo) THEN lo ELSE hi + 1)
  ELSE LET k == FirstIndex(P, lo, (lo + hi) \div 2)
       IN IF k <= (lo + hi) \div 2 THEN k ELSE FirstIndex(P, (lo + hi) \div 2 + 1, hi)

RECURSIVE FirstMatch(_, _, _)
\* F(k) for the first k of lo..hi at which F(k) is a match, NoMatch when
\* there is none (by halves, in order).
FirstMatch(F(_), lo, hi) ==
  IF lo > hi THEN NoMatch
  ELSE IF lo = hi THEN F(lo)
  ELSE LET r == FirstMatch(F, lo, (lo + hi) \div 2)
       IN IF r.ok THEN r ELSE FirstMatch(F, (lo + hi) \div 2 + 1, hi)

RECURSIVE ConcatRange(_, _, _)
\* F(lo) \o ... \o F(hi) (by halves).
ConcatRange(F(_), lo, hi) ==
  IF lo > hi THEN <<>>
  ELSE IF lo = hi THEN F(lo)
  ELSE ConcatRange(F, lo, (lo + hi) \div 2) \o ConcatRange(F, (lo + hi) \div 2 + 1, hi)

\* How many characters from position i on are in class c.
RunLen(s, c, i) ==
  IF c = "(?s)." THEN Len(s) - i + 1
  ELSE FirstIndex(LAMBDA j : ~InClass(c, Char(s, j)), i, Len(s)) - i

RECURSIVE Run(_, _, _)
RECURSIVE Step(_, _, _)

\* The ways a repetition of at least n.min characters matches from th when
\* run characters of its class follow: a lazy quantifier takes the shortest
\* run first, then one character more; a greedy one the longest run first,
\* then one character less.
Repeats(th, n, run) ==
  IF n.lazy
  THEN [k \in 1..(run - n.min + 1) |-> [th EXCEPT !.pos = @ + n.min + k - 1]]
  ELSE [k \in 1..(run - n.min + 1) |-> [th EXCEPT !.pos = @ + run - k + 1]]

\* The ways inner of the body of group g, entered at position from, with the
\* group set in each.
SetGroup(inner, g, from) ==
  [k \in 1..Len(inner) |-> [inner[k] EXCEPT !.groups[g] = <<from, inner[k].pos>>]]

\* The ways node n matches from the way th = [pos, groups] the pattern has
\* matched up to position pos, in re's order of choice.
Step(s, n, th) ==
  CASE n.t = "lit" ->
         IF th.pos + Len(n.s) - 1 <= Len(s) /\ SubSeq(s, th.pos, th.pos + Len(n.s) - 1) = n.s
         THEN <<[th EXCEPT !.pos = @ + Len(n.s)]>>
         ELSE <<>>
    [] n.t = "one" ->
         IF th.pos <= Len(s) /\ InClass(n.c, Char(s, th.pos))
         THEN <<[th EXCEPT !.pos = @ + 1]>>
         ELSE <<>>
    [] n.t = "rep" -> Repeats(th, n, RunLen(s, n.c, th.pos))
    [] n.t = "grp" -> SetGroup(Run(s, n.n, <<th>>), n.g, th.pos)
    [] n.t = "alt" -> ConcatRange(LAMBDA j : Run(s, n.a[j], <<th>>), 1, Len(n.a))
    [] n.t = "look" ->
         IF \E j \in 1..Len(n.a) : Len(Run(s, n.a[j], <<th>>)) > 0 THEN <<th>> ELSE <<>>
    [] n.t = "eos" -> IF th.pos = Len(s) + 1 THEN <<th>> ELSE <<>>
    [] n.t = "eol" ->
         IF th.pos = Len(s) + 1 \/ (th.pos <= Len(s) /\ Char(s, th.pos) = "\n")
         THEN <<th>>
         ELSE <<>>

\* The ways the nodes ns match, one after the other, from the ways ths.
Run(s, ns, ths) ==
  IF Len(ns) = 0 \/ Len(ths) = 0 THEN ths
  ELSE Run(s, Tail(ns), ConcatRange(LAMBDA k : Step(s, Head(ns), ths[k]), 1, Len(ths)))

\* The match re reports: the first way in its order of choice.
FirstWay(ways) ==
  IF Len(ways) = 0 THEN NoMatch
  ELSE [ok |-> TRUE, end |-> ways[1].pos, groups |-> ways[1].groups]

\* pat matches s from position i: [ok, end, groups], end the position after
\* the match and groups[g] = <<start, end>> of group g.
Match(s, pat, i) == FirstWay(Run(s, pat, <<[pos |-> i, groups |-> NoGroups]>>))

\* The match r from position k, with its start.
MatchAt(k, r) ==
  IF r.ok THEN [ok |-> TRUE, start |-> k, end |-> r.end, groups |-> r.groups] ELSE NoMatch

\* The leftmost match of pat in s that starts at position from or later.
SearchFrom(s, pat, from) ==
  FirstMatch(LAMBDA k : MatchAt(k, Match(s, pat, k)), from, Len(s) + 1)

\* re.search(pat, s)
re_search(pat, s) == SearchFrom(s, pat, 1)

RECURSIVE LowerPattern(_)
\* pat with its literals in lower case.
LowerPattern(pat) ==
  [j \in 1..Len(pat) |->
     CASE pat[j].t = "lit" -> Lit(lower(pat[j].s))
       [] pat[j].t = "grp" -> Group(pat[j].g, LowerPattern(pat[j].n))
       [] pat[j].t \in {"alt", "look"} ->
            [t |-> pat[j].t, a |-> [k \in 1..Len(pat[j].a) |-> LowerPattern(pat[j].a[k])]]
       [] OTHER -> pat[j]]

\* re.search(pat, s, re.IGNORECASE): the positions are those in s.
re_search_ignorecase(pat, s) == SearchFrom(lower(s), LowerPattern(pat), 1)

RECURSIVE FindFrom(_, _, _)
RECURSIVE FindNext(_, _, _)
\* re.finditer(pat, s): the matches from left to right, each search starting
\* where the match before ended (an empty match moves one character on).
FindFrom(s, pat, from) == FindNext(s, pat, SearchFrom(s, pat, from))

\* The match m, then the matches after it.
FindNext(s, pat, m) ==
  IF ~m.ok THEN <<>>
  ELSE <<m>> \o FindFrom(s, pat, IF m.end = m.start THEN m.end + 1 ELSE m.end)

re_finditer(pat, s) == FindFrom(s, pat, 1)

\* match.group(g)
group(s, m, g) ==
  IF m.groups[g][2] <= m.groups[g][1] THEN "" ELSE SubSeq(s, m.groups[g][1], m.groups[g][2] - 1)

(***************************************************************************)
(* parse_test_output.py: the framework tags and the detector.              *)
(***************************************************************************)
\* class Framework(Enum): the values, in the order they are declared.
Framework == <<"jest", "vitest", "pytest", "go", "playwright", "cypress", "unknown">>

FrameworkValues == {Framework[k] : k \in 1..Len(Framework)}

\* class FailureType(Enum)
FailureType == <<"assertion", "type_error", "timeout", "mock_issue", "environment",
                 "syntax", "unknown">>

\* detect_framework's patterns dict: three patterns for each framework, in
\* the order of the dict (Python dicts keep insertion order).
\*   jest        r"PASS|FAIL.*\.test\."      r"Jest"                 r"expect\("
\*   vitest      r"vitest"                   r"<U+2713>|<U+00D7>.*\d+ms"   r"RERUN"
\*   pytest      r"pytest"                   r"PASSED|FAILED|ERROR"  r"===.*==="
\*   go          r"--- FAIL:|--- PASS:"      r"go test"              r"FAIL\s+\S+\s+\d+\.\d+s"
\*   playwright  r"playwright"               r"\d+ passed.*\d+ failed"   r"browserType"
\*   cypress     r"cypress"                  r"Running:.*\.cy\."     r"<U+2713>|<U+2715>"
patterns ==
  << [framework |-> "jest", pats |->
        << <<Alt(<< <<Lit("PASS")>>, <<Lit("FAIL"), Star("."), Lit(".test.")>> >>)>>,
           <<Lit("Jest")>>,
           <<Lit("expect(")>> >>],
     [framework |-> "vitest", pats |->
        << <<Lit("vitest")>>,
           <<Alt(<< <<Lit("~")>>, <<Lit("%"), Star("."), Plus("\\d"), Lit("ms")>> >>)>>,
           <<Lit("RERUN")>> >>],
     [framework |-> "pytest", pats |->
        << <<Lit("pytest")>>,
           <<Alt(<< <<Lit("PASSED")>>, <<Lit("FAILED")>>, <<Lit("ERROR")>> >>)>>,
           <<Lit("==="), Star("."), Lit("===")>> >>],
     [framework |-> "go", pats |->
        << <<Alt(<< <<Lit("--- FAIL:")>>, <<Lit("--- PASS:")>> >>)>>,
           <<Lit("go test")>>,
           <<Lit("FAIL"), Plus("\\s"), Plus("\\S"), Plus("\\s"), Plus("\\d"), Lit("."),
             Plus("\\d"), Lit("s")>> >>],
     [framework |-> "playwright", pats |->
        << <<Lit("playwright")>>,
           <<Plus("\\d"), Lit(" passed"), Star("."), Plus("\\d"), Lit(" failed")>>,
           <<Lit("browserType")>> >>],
     [framework |-> "cypress", pats |->
        << <<Lit("cypress")>>,
           <<Lit("Running:"), Star("."), Lit(".cy.")>>,
           <<Alt(<< <<Lit("~")>>, <<Lit("#")>> >>)>> >>] >>

\* sum(1 for p in pats if re.search(p, output, re.IGNORECASE))
matches(pats, output_) ==
  Cardinality({k \in 1..Len(pats) : re_search_ignorecase(pats[k], output_).ok})

RECURSIVE DetectFromOneMatch(_, _)
\* The loop with the threshold one too low: a single matching pattern
\* selects the framework.
DetectFromOneMatch(output_, k) ==
  IF k > Len(patterns) THEN "unknown"
  ELSE IF matches(patterns[k].pats, output_) >= 1 THEN patterns[k].framework
  ELSE DetectFromOneMatch(output_, k + 1)

RECURSIVE DetectFrom(_, _)
\* The loop of detect_framework from the k-th entry of patterns on.
DetectFrom(output_, k) ==
  IF k > Len(patterns) THEN "unknown"
  ELSE IF matches(patterns[k].pats, output_) >= 2 THEN patterns[k].framework
  ELSE DetectFrom(output_, k + 1)

detect_framework(output_) == DetectFrom(output_, 1)

(***************************************************************************)
(* classify_failure                                                        *)
(***************************************************************************)
\* The if/elif chain: each branch's keywords and the type it returns.
FailureKeywords ==
  << [type |-> "assertion", kws |-> {"expected", "to equal", "to be", "assertion", "assert"}],
     [type |-> "type_error", kws |-> {"typeerror", "undefined is not", "null is not", "cannot read"}],
     [type |-> "timeout", kws |-> {"timeout", "exceeded", "timed out"}],
     [type |-> "mock_issue", kws |-> {"mock", "spy", "stub", "not called"}],
     [type |-> "environment", kws |-> {"enoent", "connection refused", "econnrefused", "env"}],
     [type |-> "syntax", kws |-> {"syntaxerror", "unexpected token"}] >>

RECURSIVE ClassifyFromLast(_, _)
\* The chain as a run of plain ifs, each overwriting the result: the last
\* branch with a keyword in the message wins.
ClassifyFromLast(error_lower, k) ==
  IF k > Len(FailureKeywords) THEN "unknown"
  ELSE LET later == ClassifyFromLast(error_lower, k + 1)
       IN IF later # "unknown" THEN later
          ELSE IF \E kw \in FailureKeywords[k].kws : Contains(error_lower, kw)
               THEN FailureKeywords[k].type
               ELSE "unknown"

RECURSIVE ClassifyFrom(_, _)
\* The chain from its k-th branch on, on the lowered message.
ClassifyFrom(error_lower, k) ==
  IF k > Len(FailureKeywords) THEN "unknown"
  ELSE IF \E kw \in FailureKeywords[k].kws : Contains(error_lower, kw)
       THEN FailureKeywords[k].type
       ELSE ClassifyFrom(error_lower, k + 1)

classify_failure(error_message_) == ClassifyFrom(lower(error_message_), 1)

(***************************************************************************)
(* The extractors.  Each returns Return(TestResult) or Raise(exception).   *)
(***************************************************************************)
\* @dataclass FailedTest; stack_trace keeps its default, None.
FailedTest(file, test_name, error_msg, line_number, rerun_command) ==
  [file |-> file, test_name |-> test_name, error_message |-> error_msg,
   line_number |-> line_number, failure_type |-> classify_failure(error_msg),
   stack_trace |-> None, rerun_command |-> Some(rerun_command)]

\* @dataclass TestResult
TestResult(fw, total, passed, failed, skipped, duration_ms, failures) ==
  [framework |-> fw, total |-> total, passed |-> passed, failed |-> failed,
   skipped |-> skipped, duration_ms |-> duration_ms, failures |-> failures]

RECURSIVE Flatten(_, _)
\* The lists of seqs from the k-th on, appended in order (failures.append in
\* the nested loops).
Flatten(seqs, k) == IF k > Len(seqs) THEN <<>> ELSE seqs[k] \o Flatten(seqs, k + 1)

\* float(tok) for a token of digits and dots returns iff the token has a
\* digit and at most one dot; otherwise it raises ValueError.
FloatOk(tok) ==
  /\ \E i \in 1..Len(tok) : Char(tok, i) \in Digits
  /\ Cardinality({i \in 1..Len(tok) : Char(tok, i) = "."}) <= 1

\* int(float(tok) * 1000) for such a token: the thousandths, truncated.
\* (The binary product may round below a whole number of thousandths, as in
\* "1.001" -> 1000; the model's texts use values where it does not.)
Millis(tok) ==
  LET dots == {i \in 1..Len(tok) : Char(tok, i) = "."}
      d == IF dots = {} THEN Len(tok) + 1 ELSE CHOOSE i \in dots : TRUE
  IN int(Prefix(tok, d - 1)) * 1000 + int(Prefix(From(tok, d + 1) \o "000", 3))

RECURSIVE str(_)
\* str(n) of an int n >= 0, as an f-string formats it.
str(n) ==
  IF n < 10 THEN CHOOSE c \in Digits : DigitVal(c) = n
  ELSE str(n \div 10) \o (CHOOSE c \in Digits : DigitVal(c) = n % 10)

\* ---- parse_jest -------------------------------------------------------
\* r"FAIL\s+(\S+)\n(.*?)(?=\n(?:PASS|FAIL|Test Suites:)|\Z)", re.DOTALL
jest_fail_pattern ==
  <<Lit("FAIL"), Plus("\\s"), Group(1, <<Plus("\\S")>>), Lit("\n"),
    Group(2, <<LazyStar("(?s).")>>),
    Lookahead(<< <<Lit("\n"), Alt(<< <<Lit("PASS")>>, <<Lit("FAIL")>>, <<Lit("Test Suites:")>> >>)>>,
                 <<EndOfString>> >>)>>

\* r"[<U+00D7><U+2715>]\s+(.+?)\s+\((\d+)\s*ms\)\n(.*?)(?=\n\s*[<U+00D7><U+2715><U+25CF>]|\Z)", re.DOTALL
jest_test_pattern ==
  <<One("[%#]"), Plus("\\s"), Group(1, <<LazyPlus("(?s).")>>), Plus("\\s"), Lit("("),
    Group(2, <<Plus("\\d")>>), Star("\\s"), Lit("ms)"), Lit("\n"),
    Group(3, <<LazyStar("(?s).")>>),
    Lookahead(<< <<Lit("\n"), Star("\\s"), One("[%#@]")>>, <<EndOfString>> >>)>>

\* r":(\d+):\d+"
jest_line_pattern == <<Lit(":"), Group(1, <<Plus("\\d")>>), Lit(":"), Plus("\\d")>>

\* r"Tests:\s+(\d+)\s+failed.*?(\d+)\s+passed.*?(\d+)\s+total", re.IGNORECASE
jest_summary_pattern ==
  <<Lit("Tests:"), Plus("\\s"), Group(1, <<Plus("\\d")>>), Plus("\\s"), Lit("failed"),
    LazyStar("."), Group(2, <<Plus("\\d")>>), Plus("\\s"), Lit("passed"),
    LazyStar("."), Group(3, <<Plus("\\d")>>), Plus("\\s"), Lit("total")>>

\* r"(\d+)\s+(?:tests?|specs?)", re.IGNORECASE
jest_total_pattern ==
  <<Group(1, <<Plus("\\d")>>), Plus("\\s"),
    Alt(<< <<Lit("test"), Opt(<<Lit("s")>>)>>, <<Lit("spec"), Opt(<<Lit("s")>>)>> >>)>>

\* r"Time:\s+([\d.]+)\s*s"
jest_duration_pattern ==
  <<Lit("Time:"), Plus("\\s"), Group(1, <<Plus("[\\d.]")>>), Star("\\s"), Lit("s")>>

\* int(line_match.group(1)) if line_match else None
jest_line_number(error_block, line_match) ==
  IF line_match.ok THEN Some(int(group(error_block, line_match, 1))) ELSE None

\* error_lines[0] if error_lines else "Unknown error"
first_line(error_lines) == IF Len(error_lines) > 0 THEN error_lines[1] ELSE "Unknown error"

\* The FailedTest of a test line with its name and error block stripped.
jest_failed_test(file_path, test_name, error_block) ==
  FailedTest(file_path, test_name, first_line(split(error_block)),
             jest_line_number(error_block, re_search(jest_line_pattern, error_block)),
             "npx jest --testNamePattern=\"" \o test_name \o "\"")

\* The body of the inner loop: one FailedTest from one match of test_pattern
\* in a block.
jest_failure(file_path, block, test_match) ==
  jest_failed_test(file_path, strip(group(block, test_match, 1)),
                   strip(group(block, test_match, 3)))

\* The inner loop over the matches ms of test_pattern in one block.
jest_block_loop(file_path, block, ms) ==
  [k \in 1..Len(ms) |-> jest_failure(file_path, block, ms[k])]

jest_block_failures(file_path, block) ==
  jest_block_loop(file_path, block, re_finditer(jest_test_pattern, block))

\* The outer loop over the matches ms of fail_pattern: failures, in the order
\* they are appended.
jest_loop(output_, ms) ==
  Flatten([k \in 1..Len(ms) |->
             jest_block_failures(group(output_, ms[k], 1), group(output_, ms[k], 2))], 1)

jest_failures(output_) == jest_loop(output_, re_finditer(jest_fail_pattern, output_))

\* duration_ms of a match of a duration pattern: int(float(group(1)) * 1000),
\* None without a match.
duration_ms(output_, duration_match) ==
  IF duration_match.ok THEN Some(Millis(group(output_, duration_match, 1))) ELSE None

\* float(duration_match.group(1)) raises.
BadDuration(output_, duration_match) ==
  duration_match.ok /\ ~FloatOk(group(output_, duration_match, 1))

\* The summary, the duration and the return of parse_jest, given the
\* failures and the matches of its patterns in the output.
jest_result(output_, failures, summary_match, total_match, duration_match) ==
  LET failed == IF summary_match.ok THEN int(group(output_, summary_match, 1)) ELSE Len(failures)
      total == IF summary_match.ok THEN int(group(output_, summary_match, 3))
               ELSE IF total_match.ok THEN int(group(output_, total_match, 1))
               ELSE Len(failures)
      passed == IF summary_match.ok THEN int(group(output_, summary_match, 2))
                ELSE total - failed
  IN IF BadDuration(output_, duration_match) THEN Raise("ValueError")
     ELSE Return(TestResult("jest", total, passed, failed, 0,
                            duration_ms(output_, duration_match), failures))

parse_jest(output_) ==
  jest_result(output_, jest_failures(output_),
              re_search_ignorecase(jest_summary_pattern, output_),
              re_search_ignorecase(jest_total_pattern, output_),
              re_search(jest_duration_pattern, output_))

\* ---- parse_pytest -----------------------------------------------------
\* r"FAILED\s+(\S+)::(\S+)"
pytest_fail_pattern ==
  <<Lit("FAILED"), Plus("\\s"), Group(1, <<Plus("\\S")>>), Lit("::"), Group(2, <<Plus("\\S")>>)>>

\* rf"{re.escape(test_name)}.*?\n(.*?)(?=\n(?:FAILED|PASSED|=====)|\Z)", re.DOTALL
pytest_error_pattern(test_name) ==
  <<Lit(test_name), LazyStar("(?s)."), Lit("\n"), Group(1, <<LazyStar("(?s).")>>),
    Lookahead(<< <<Lit("\n"), Alt(<< <<Lit("FAILED")>>, <<Lit("PASSED")>>, <<Lit("=====")>> >>)>>,
                 <<EndOfString>> >>)>>

\* r"(\d+)\s+failed.*?(\d+)\s+passed", re.IGNORECASE
pytest_summary_pattern ==
  <<Group(1, <<Plus("\\d")>>), Plus("\\s"), Lit("failed"), LazyStar("."),
    Group(2, <<Plus("\\d")>>), Plus("\\s"), Lit("passed")>>

\* r"(\d+)\s+passed"
passed_pattern == <<Group(1, <<Plus("\\d")>>), Plus("\\s"), Lit("passed")>>

\* r"(\d+)\s+skipped"
pytest_skipped_pattern == <<Group(1, <<Plus("\\d")>>), Plus("\\s"), Lit("skipped")>>

\* r"in\s+([\d.]+)s"
pytest_duration_pattern == <<Lit("in"), Plus("\\s"), Group(1, <<Plus("[\\d.]")>>), Lit("s")>>

\* error_message is cut to its first 200 characters.
MaxErrorLength == 200

\* error_match.group(1).strip()[:200] if error_match else "Unknown error"
pytest_error_message(output_, error_match) ==
  IF error_match.ok THEN Prefix(strip(group(output_, error_match, 1)), MaxErrorLength)
  ELSE "Unknown error"

\* The FailedTest of a FAILED line with its file and test name.
pytest_failed_test(output_, file_path, test_name) ==
  FailedTest(file_path, test_name,
             pytest_error_message(output_, re_search(pytest_error_pattern(test_name), output_)),
             None, "pytest " \o file_path \o "::" \o test_name)

\* The body of the loop: one FailedTest from one match of fail_pattern.
pytest_failure(output_, match) ==
  pytest_failed_test(output_, group(output_, match, 1), group(output_, match, 2))

\* The loop over the matches ms of fail_pattern.
pytest_loop(output_, ms) == [k \in 1..Len(ms) |-> pytest_failure(output_, ms[k])]

pytest_failures(output_) == pytest_loop(output_, re_finditer(pytest_fail_pattern, output_))

\* The summary, the duration and the return of parse_pytest, given the
\* failures and the matches of its patterns in the output.
pytest_result(output_, failures, summary_match, passed_match, skipped_match, duration_match) ==
  LET failed == IF summary_match.ok THEN int(group(output_, summary_match, 1)) ELSE Len(failures)
      passed == IF summary_match.ok THEN int(group(output_, summary_match, 2))
                ELSE IF passed_match.ok THEN int(group(output_, passed_match, 1))
                ELSE 0
      skipped == IF skipped_match.ok THEN int(group(output_, skipped_match, 1)) ELSE 0
      total == passed + failed + skipped
  IN IF BadDuration(output_, duration_match) THEN Raise("ValueError")
     ELSE Return(TestResult("pytest", total, passed, failed, skipped,
                            duration_ms(output_, duration_match), failures))

parse_pytest(output_) ==
  pytest_result(output_, pytest_failures(output_),
                re_search_ignorecase(pytest_summary_pattern, output_),
                re_search(passed_pattern, output_),
                re_search(pytest_skipped_pattern, output_),
                re_search(pytest_duration_pattern, output_))

\* ---- parse_go ---------------------------------------------------------
\* r"--- FAIL:\s+(\S+)\s+\(([\d.]+)s\)\n(.*?)(?=\n--- |\nFAIL\s|\nok\s|\Z)", re.DOTALL
go_fail_pattern ==
  <<Lit("--- FAIL:"), Plus("\\s"), Group(1, <<Plus("\\S")>>), Plus("\\s"), Lit("("),
    Group(2, <<Plus("[\\d.]")>>), Lit("s)"), Lit("\n"), Group(3, <<LazyStar("(?s).")>>),
    Lookahead(<< <<Lit("\n--- ")>>, <<Lit("\nFAIL"), One("\\s")>>, <<Lit("\nok"), One("\\s")>>,
                 <<EndOfString>> >>)>>

\* r"(\S+\.go):(\d+)"
go_loc_pattern == <<Group(1, <<Plus("\\S"), Lit(".go")>>), Lit(":"), Group(2, <<Plus("\\d")>>)>>

\* r"--- PASS:"
go_pass_pattern == <<Lit("--- PASS:")>>

\* r"([\d.]+)s\s*$", re.MULTILINE
go_duration_pattern == <<Group(1, <<Plus("[\\d.]")>>), Lit("s"), Star("\\s"), EndOfLine>>

\* [l.strip() for l in lines if l.strip()]
StrippedNonEmpty(lines) ==
  SelectSeq([k \in 1..Len(lines) |-> strip(lines[k])], LAMBDA l : l # "")

\* The FailedTest of a FAIL line with its test name and error block, given
\* the match of the location pattern in the block.
go_failed_test(test_name, error_block, loc_match) ==
  FailedTest(IF loc_match.ok THEN group(error_block, loc_match, 1) ELSE "unknown",
             test_name, first_line(StrippedNonEmpty(split(error_block))),
             IF loc_match.ok THEN Some(int(group(error_block, loc_match, 2))) ELSE None,
             "go test -run " \o test_name \o " ./...")

\* error_block = match.group(3).strip(), and the search for the location.
go_block(test_name, error_block) ==
  go_failed_test(test_name, error_block, re_search(go_loc_pattern, error_block))

\* The body of the loop: one FailedTest from one match of fail_pattern.
go_failure(output_, match) ==
  go_block(group(output_, match, 1), strip(group(output_, match, 3)))

\* The loop over the matches ms of fail_pattern.
go_loop(output_, ms) == [k \in 1..Len(ms) |-> go_failure(output_, ms[k])]

go_failures(output_) == go_loop(output_, re_finditer(go_fail_pattern, output_))

\* The summary, the duration and the return of parse_go, given the failures,
\* the number of PASS lines and the match of the duration pattern.
go_result(output_, failures, pass_count, duration_match) ==
  IF BadDuration(output_, duration_match) THEN Raise("ValueError")
  ELSE Return(TestResult("go", pass_count + Len(failures), pass_count, Len(failures), 0,
                         duration_ms(output_, duration_match), failures))

parse_go(output_) ==
  go_result(output_, go_failures(output_), Len(re_finditer(go_pass_pattern, output_)),
            re_search(go_duration_pattern, output_))

\* ---- parse_playwright -------------------------------------------------
\* r"(\d+)\)\s+\[.*?\]\s+<U+203A>\s+(\S+):(\d+):\d+\s+<U+203A>\s+(.+?)\n(.*?)(?=\n\d+\)|\n\s+\d+ passed|\Z)",
\* re.DOTALL
playwright_fail_pattern ==
  <<Group(1, <<Plus("\\d")>>), Lit(")"), Plus("\\s"), Lit("["), LazyStar("(?s)."), Lit("]"),
    Plus("\\s"), Lit(">"), Plus("\\s"), Group(2, <<Plus("\\S")>>), Lit(":"),
    Group(3, <<Plus("\\d")>>), Lit(":"), Plus("\\d"), Plus("\\s"), Lit(">"), Plus("\\s"),
    Group(4, <<LazyPlus("(?s).")>>), Lit("\n"), Group(5, <<LazyStar("(?s).")>>),
    Lookahead(<< <<Lit("\n"), Plus("\\d"), Lit(")")>>,
                 <<Lit("\n"), Plus("\\s"), Plus("\\d"), Lit(" passed")>>,
                 <<EndOfString>> >>)>>

\* r"(\d+)\s+passed.*?(\d+)\s+failed"
playwright_summary_pattern ==
  <<Group(1, <<Plus("\\d")>>), Plus("\\s"), Lit("passed"), LazyStar("."),
    Group(2, <<Plus("\\d")>>), Plus("\\s"), Lit("failed")>>

\* The FailedTest of a failure header with its file, line and title and the
\* first non-blank line of its error block.  The failure is classified by the
\* whole line, then the line is cut.
playwright_failed_test(file_path, line_number, test_name, error_msg) ==
  [FailedTest(file_path, test_name, error_msg, Some(line_number),
              "npx playwright test " \o file_path \o ":" \o str(line_number))
     EXCEPT !.error_message = Prefix(error_msg, MaxErrorLength)]

\* The body of the loop: one FailedTest from one match of fail_pattern.
playwright_failure(output_, match) ==
  playwright_failed_test(group(output_, match, 2), int(group(output_, match, 3)),
                         strip(group(output_, match, 4)),
                         first_line(StrippedNonEmpty(split(strip(group(output_, match, 5))))))

\* The loop over the matches ms of fail_pattern.
playwright_loop(output_, ms) == [k \in 1..Len(ms) |-> playwright_failure(output_, ms[k])]

playwright_failures(output_) ==
  playwright_loop(output_, re_finditer(playwright_fail_pattern, output_))

\* The summary and the return of parse_playwright, given the failures and
\* the matches of its patterns in the output.
playwright_result(output_, failures, summary_match, passed_match) ==
  LET failed == IF summary_match.ok THEN int(group(output_, summary_match, 2)) ELSE Len(failures)
      passed == IF summary_match.ok THEN int(group(output_, summary_match, 1))
                ELSE IF passed_match.ok THEN int(group(output_, passed_match, 1))
                ELSE 0
  IN Return(TestResult("playwright", passed + failed, passed, failed, 0, None, failures))

parse_playwright(output_) ==
  playwright_result(output_, playwright_failures(output_),
                    re_search(playwright_summary_pattern, output_),
                    re_search(passed_pattern, output_))

(***************************************************************************)
(* parse_output                                                            *)
(***************************************************************************)
\* The parsers dict and parsers.get(fw, parse_jest): the extractor of fw,
\* parse_jest for a tag the dict does not hold (unknown).
parsers(fw, output_) ==
  CASE fw = "jest" -> parse_jest(output_)
    [] fw = "vitest" -> parse_jest(output_)
    [] fw = "pytest" -> parse_pytest(output_)
    [] fw = "go" -> parse_go(output_)
    [] fw = "playwright" -> parse_playwright(output_)
    [] fw = "cypress" -> parse_jest(output_)
    [] OTHER -> parse_jest(output_)

\* if fw != Framework.UNKNOWN: result.framework = fw.value; return result
tagged(fw, result) ==
  IF result.exc # "none" THEN result
  ELSE IF fw # "unknown" THEN Return([result.val EXCEPT !.framework = fw])
  ELSE result

\* parse_output from the resolved tag fw on.
parse_as(output_, fw) == tagged(fw, parsers(fw, output_))

\* parse_output(output, framework): framework is None or Some(tag).  A tag
\* that is not the empty string goes through Framework(tag), which raises
\* ValueError for a string that is no value of the enum.
parse_output(output_, framework_) ==
  IF framework_ # None /\ framework_[1] # "" /\ framework_[1] \notin FrameworkValues
  THEN Raise("ValueError")
  ELSE parse_as(output_, IF framework_ # None /\ framework_[1] # ""
                         THEN framework_[1]
                         ELSE detect_framework(output_))

(***************************************************************************)
(* list_tests.py: generate_remaining_tests                                 *)
(***************************************************************************)
\* @dataclass TestItem, as asdict gives it; line and suite are optional.
TestItem(id, name, file) == [id |-> id, name |-> name, file |-> file, line |-> None, suite |-> None]

\* @dataclass TestList
TestList(fw, tests, run_single, run_from, bail) ==
  [framework |-> fw, total |-> Len(tests), tests |-> tests, run_single_command |-> run_single,
   run_from_command |-> run_from, bail_command |-> bail]

\* seq[start:] for a 0-based start: a negative start counts from the end,
\* and a start outside the list is moved to its nearer end.
SliceFrom(seq, start) ==
  LET n == Len(seq)
      from == IF start < 0 THEN (IF start + n < 0 THEN 0 ELSE start + n)
              ELSE IF start > n THEN n ELSE start
  IN SubSeq(seq, from + 1, n)

\* The go branch joining the ids with blanks, as the other branches do.
remaining_command_go_blanks(fw, test_ids) ==
  CASE fw \in {"jest", "vitest"} -> Some("npx " \o fw \o " " \o join(" ", test_ids))
    [] fw = "pytest" -> Some("pytest " \o join(" ", test_ids))
    [] fw = "go" -> Some("go test -run '" \o join(" ", test_ids) \o "' ./...")
    [] fw = "playwright" -> Some("npx playwright test " \o join(" ", test_ids))
    [] OTHER -> None

\* The framework-specific command for the ids of the remaining tests; None
\* in the else branch.
remaining_command(fw, test_ids) ==
  CASE fw \in {"jest", "vitest"} -> Some("npx " \o fw \o " " \o join(" ", test_ids))
    [] fw = "pytest" -> Some("pytest " \o join(" ", test_ids))
    [] fw = "go" -> Some("go test -run '" \o join("|", test_ids) \o "' ./...")
    [] fw = "playwright" -> Some("npx playwright test " \o join(" ", test_ids))
    [] OTHER -> None

\* The slice one too early: tests[failed_index:] keeps the failed test.
generate_remaining_tests_from_failed(test_list_, failed_index_) ==
  LET remaining == SliceFrom(test_list_.tests, failed_index_)
  IN IF Len(remaining) = 0
     THEN [remaining_count |-> 0, remaining_tests |-> <<>>, run_remaining_command |-> None]
     ELSE [remaining_count |-> Len(remaining), remaining_tests |-> remaining,
           run_remaining_command |->
             remaining_command(test_list_.framework, [k \in 1..Len(remaining) |-> remaining[k].id])]

\* The dict generate_remaining_tests returns.
generate_remaining_tests(test_list_, failed_index_) ==
  LET remaining == SliceFrom(test_list_.tests, failed_index_ + 1)
  IN IF Len(remaining) = 0
     THEN [remaining_count |-> 0, remaining_tests |-> <<>>, run_remaining_command |-> None]
     ELSE [remaining_count |-> Len(remaining), remaining_tests |-> remaining,
           run_remaining_command |->
             remaining_command(test_list_.framework, [k \in 1..Len(remaining) |-> remaining[k].id])]

(***************************************************************************)
(* list_tests.py: the listers.  A lister runs the listing tool with        *)
(* subprocess.run and reads its stdout.  What a run does is an input: the  *)
(* exception subprocess.run raises, or "none" with the exit status and the *)
(* stdout of the tool.                                                     *)
(***************************************************************************)

Outcome(exc, returncode, stdout) == [exc |-> exc, returncode |-> returncode, stdout |-> stdout]

\* except subprocess.TimeoutExpired alone.
CaughtTimeoutOnly == {"TimeoutExpired"}

\* except (subprocess.TimeoutExpired, FileNotFoundError)
Caught == {"TimeoutExpired", "FileNotFoundError"}

\* A lister's TestList of the tests it found.
Listed(fw, tests, run_single, run_from, bail) ==
  [framework |-> fw, total |-> Len(tests), tests |-> tests, run_single_command |-> run_single,
   run_from_command |-> run_from, bail_command |-> bail]

\* json.loads, for the JSON the model's texts hold: arrays, objects,
\* strings without escapes, integers, null, true and false.  A value is a
\* record of its type t and its content: s for a string, n for an integer,
\* v for the elements of an array or the <<key, value>> members of an
\* object.  The result is the value (ok) or json.JSONDecodeError (~ok).
json_loads(text) ==
  LET Json(t, s, n, v) == [t |-> t, s |-> s, n |-> n, v |-> v]
      \* a value read up to position next - 1
      Decoded(val, next) == [ok |-> TRUE, val |-> val, next |-> next]
      JSONDecodeError == [ok |-> FALSE, val |-> Json("null", "", 0, <<>>), next |-> 0]
      \* the text at position i is x
      At(i, x) == i + Len(x) - 1 <= Len(text) /\ SubSeq(text, i, i + Len(x) - 1) = x
      RECURSIVE SkipWs(_)
      SkipWs(i) == IF i <= Len(text) /\ Char(text, i) \in {" ", "\t", "\n", "\r"} THEN SkipWs(i + 1) ELSE i
      \* the string whose opening quote is at i: it ends at the next quote,
      \* and a control character inside it is an error
      ParseString(i) ==
        LET quotes == {j \in (i + 1)..Len(text) : Char(text, j) = "\""}
        IN IF quotes = {} THEN JSONDecodeError
           ELSE LET j == CHOOSE k \in quotes : \A q \in quotes : k <= q
                    body == IF j = i + 1 THEN "" ELSE SubSeq(text, i + 1, j - 1)
                IN IF \E k \in 1..Len(body) : Char(body, k) \in {"\n", "\t", "\r", "\f"}
                   THEN JSONDecodeError
                   ELSE Decoded(Json("str", body, 0, <<>>), j + 1)
      \* the integer at i: an optional minus sign, then 0 or digits not led by 0
      RECURSIVE DigitsEnd(_)
      DigitsEnd(i) == IF i <= Len(text) /\ Char(text, i) \in Digits THEN DigitsEnd(i + 1) ELSE i
      ParseInt(i) ==
        LET neg == Char(text, i) = "-"
            from == IF neg THEN i + 1 ELSE i
            to == IF from <= Len(text) /\ Char(text, from) = "0" THEN from + 1 ELSE DigitsEnd(from)
        IN IF to = from THEN JSONDecodeError
           ELSE Decoded(Json("int", "", IF neg THEN 0 - int(SubSeq(text, from, to - 1))
                                         ELSE int(SubSeq(text, from, to - 1)), <<>>), to)
      RECURSIVE ParseValue(_), ParseElements(_, _), ParseMembers(_, _)
      \* after an element of an array: a comma and the next element, or the end
      AfterElementAt(acc, j) ==
        IF j > Len(text) THEN JSONDecodeError
        ELSE IF Char(text, j) = "," THEN ParseElements(SkipWs(j + 1), acc)
        ELSE IF Char(text, j) = "]" THEN Decoded(Json("list", "", 0, acc), j + 1)
        ELSE JSONDecodeError
      AfterElement(acc, r) ==
        IF r.ok THEN AfterElementAt(Append(acc, r.val), SkipWs(r.next)) ELSE JSONDecodeError
      ParseElements(i, acc) == AfterElement(acc, ParseValue(i))
      \* after a member of an object: a comma and the next member, or the end
      AfterMemberAt(acc, j) ==
        IF j > Len(text) THEN JSONDecodeError
        ELSE IF Char(text, j) = "," THEN ParseMembers(SkipWs(j + 1), acc)
        ELSE IF Char(text, j) = "}" THEN Decoded(Json("dict", "", 0, acc), j + 1)
        ELSE JSONDecodeError
      AfterMember(acc, key, r) ==
        IF r.ok THEN AfterMemberAt(Append(acc, <<key, r.val>>), SkipWs(r.next)) ELSE JSONDecodeError
      AfterKeyAt(acc, key, j) ==
        IF j <= Len(text) /\ Char(text, j) = ":"
        THEN AfterMember(acc, key, ParseValue(SkipWs(j + 1)))
        ELSE JSONDecodeError
      AfterKey(acc, k) == IF k.ok THEN AfterKeyAt(acc, k.val.s, SkipWs(k.next)) ELSE JSONDecodeError
      ParseMembers(i, acc) ==
        IF i <= Len(text) /\ Char(text, i) = "\"" THEN AfterKey(acc, ParseString(i)) ELSE JSONDecodeError
      \* the first member of an array or an object, or its end at once
      OpenArray(j) ==
        IF j <= Len(text) /\ Char(text, j) = "]" THEN Decoded(Json("list", "", 0, <<>>), j + 1)
        ELSE ParseElements(j, <<>>)
      OpenObject(j) ==
        IF j <= Len(text) /\ Char(text, j) = "}" THEN Decoded(Json("dict", "", 0, <<>>), j + 1)
        ELSE ParseMembers(j, <<>>)
      ParseValue(i) ==
        IF i > Len(text) THEN JSONDecodeError
        ELSE IF Char(text, i) = "\"" THEN ParseString(i)
        ELSE IF Char(text, i) = "[" THEN OpenArray(SkipWs(i + 1))
        ELSE IF Char(text, i) = "{" THEN OpenObject(SkipWs(i + 1))
        ELSE IF At(i, "null") THEN Decoded(Json("null", "", 0, <<>>), i + 4)
        ELSE IF At(i, "true") THEN Decoded(Json("true", "", 0, <<>>), i + 4)
        ELSE IF At(i, "false") THEN Decoded(Json("false", "", 0, <<>>), i + 5)
        ELSE IF Char(text, i) \in Digits \cup {"-"} THEN ParseInt(i)
        ELSE JSONDecodeError
      \* one value with white space around it and nothing else
      WholeText(r) == IF r.ok /\ SkipWs(r.next) > Len(text) THEN r ELSE JSONDecodeError
  IN WholeText(ParseValue(SkipWs(1)))

\* list_jest_tests(path), where runs are the outcomes of the runs of the
\* tool in the order they are made and files the files under path in the
\* order a scan finds them, each written as str(f).
list_jest_tests(path, runs, files) ==
  LET runners == <<"vitest", "jest">>
      suffixes == <<".test.ts", ".test.js", ".spec.ts", ".spec.js">>
      endswith(s, tail) == Len(tail) <= Len(s) /\ From(s, Len(s) - Len(tail) + 1) = tail
      JStr(s) == [t |-> "str", s |-> s, n |-> 0, v |-> <<>>]
      \* d.get(key, default): a key given twice has its last value
      get(d, key, default) ==
        LET at == {k \in 1..Len(d.v) : d.v[k][1] = key}
        IN IF at = {} THEN default ELSE d.v[CHOOSE k \in at : \A j \in at : j <= k][2]
      \* Path(p).stem: the last component of p without its last suffix
      stem(p) ==
        LET slashes == {i \in 1..Len(p) : Char(p, i) = "/"}
            name == IF slashes = {} THEN p
                    ELSE From(p, 1 + CHOOSE k \in slashes : \A j \in slashes : j <= k)
            dots == {i \in 1..Len(name) : Char(name, i) = "."}
            dot == IF dots = {} THEN 0 ELSE CHOOSE k \in dots : \A j \in dots : j <= k
        IN IF 1 < dot /\ dot < Len(name) THEN SubSeq(name, 1, dot - 1) ELSE name
      \* the fallback of a listing that is not JSON: the lines that name a test file
      listed_lines(stdout) ==
        LET lines == split(stdout)
            stripped == [k \in 1..Len(lines) |-> strip(lines[k])]
            named == SelectSeq(stripped, LAMBDA l : \E k \in 1..Len(suffixes) : endswith(l, suffixes[k]))
        IN [k \in 1..Len(named) |-> JStr(named[k])]
      \* test_files: the array itself, an object's "testResults", and
      \* AttributeError for a value that has no get
      test_files(stdout, data) ==
        IF ~data.ok THEN Return([JStr("") EXCEPT !.t = "list", !.v = listed_lines(stdout)])
        ELSE IF data.val.t = "list" THEN Return(data.val)
        ELSE IF data.val.t = "dict"
        THEN Return(get(data.val, "testResults", [JStr("") EXCEPT !.t = "list"]))
        ELSE Raise("AttributeError")
      \* enumerate(test_files): the elements of an array, the keys of an
      \* object, the characters of a string, TypeError for any other value
      enumerate(v) ==
        IF v.t = "list" THEN Return(v.v)
        ELSE IF v.t = "dict" THEN Return([k \in 1..Len(v.v) |-> JStr(v.v[k][1])])
        ELSE IF v.t = "str" THEN Return([k \in 1..Len(v.s) |-> JStr(Char(v.s, k))])
        ELSE Raise("TypeError")
      \* the item of file_path; Path(file_path) raises TypeError unless it is a string
      path_item(file_path) ==
        IF file_path.t = "str"
        THEN Return(TestItem(file_path.s, stem(file_path.s), file_path.s))
        ELSE Raise("TypeError")
      \* the item of element f at (0-based) index i
      item(f, i) ==
        IF f.t = "str" THEN path_item(f)
        ELSE IF f.t = "dict" THEN path_item(get(f, "name", JStr("test_" \o str(i))))
        ELSE Raise("AttributeError")
      \* the list comprehension: all the items, or what the first element
      \* that raises raised
      collected(items) ==
        LET bad == {k \in 1..Len(items) : items[k].exc # "none"}
        IN IF bad = {} THEN Return([k \in 1..Len(items) |-> items[k].val])
           ELSE items[CHOOSE k \in bad : \A j \in bad : k <= j]
      list_of(runner, tests) ==
        IF tests.exc # "none" THEN tests
        ELSE Return(Listed(runner, tests.val, "npx " \o runner \o " {test_id}",
                           "npx " \o runner \o " --testPathPattern='{test_id}'",
                           "npx " \o runner \o " --bail"))
      items_of(runner, fs) ==
        IF fs.exc # "none" THEN fs
        ELSE list_of(runner, collected([k \in 1..Len(fs.val) |-> item(fs.val[k], k - 1)]))
      enumerated(runner, tf) == IF tf.exc # "none" THEN tf ELSE items_of(runner, enumerate(tf.val))
      \* the body of the try for a run that exited with 0
      listing(runner, stdout) == enumerated(runner, test_files(stdout, json_loads(stdout)))
      \* Path(path).glob("**/*" + suffix)
      glob(suffix) == SelectSeq(files, LAMBDA f : endswith(f, suffix))
      \* the manual fallback: the test files outside node_modules, pattern by pattern
      fallback ==
        LET found == Flatten([k \in 1..Len(suffixes) |-> glob(suffixes[k])], 1)
            kept == SelectSeq(found, LAMBDA f : ~Contains(f, "node_modules"))
        IN Return(Listed("jest", [k \in 1..Len(kept) |-> TestItem(kept[k], stem(kept[k]), kept[k])],
                         "npx jest {test_id}", "npx jest --testPathPattern='{test_id}'",
                         "npx jest --bail"))
      \* the loop over the runners from the k-th: a run that exits with 0 is
      \* listed, one that exits with another status or raises a caught
      \* exception leaves the turn to the next runner, any other exception
      \* is raised
      RECURSIVE loop(_)
      loop(k) ==
        IF k > Len(runners) THEN fallback
        ELSE IF runs[k].exc \in Caught THEN loop(k + 1)
        ELSE IF runs[k].exc # "none" THEN Raise(runs[k].exc)
        ELSE IF runs[k].returncode = 0 THEN listing(runners[k], runs[k].stdout)
        ELSE loop(k + 1)
  IN loop(1)

\* list_pytest_tests(path) when the run of the tool does what runs[1] says.
list_pytest_tests(path, runs) ==
  LET \* line.split("::"): the parts between the "::", taken from the left
      RECURSIVE parts_of(_)
      parts_of(s) ==
        LET at == {i \in 1..(Len(s) - 1) : SubSeq(s, i, i + 1) = "::"}
        IN IF at = {} THEN <<s>>
           ELSE LET i == CHOOSE k \in at : \A j \in at : k <= j
                IN <<SubSeq(s, 1, i - 1)>> \o parts_of(From(s, i + 2))
      item(line, parts) ==
        [TestItem(line, parts[Len(parts)], parts[1]) EXCEPT
           !.suite = IF Len(parts) > 2 THEN Some(join("::", SubSeq(parts, 2, Len(parts) - 1)))
                     ELSE None]
      lines == split(runs[1].stdout)
      stripped == [k \in 1..Len(lines) |-> strip(lines[k])]
      ids == SelectSeq(stripped, LAMBDA l : Contains(l, "::") /\ Prefix(l, 1) # "<")
      tests == [k \in 1..Len(ids) |-> item(ids[k], parts_of(ids[k]))]
  IN IF runs[1].exc \in Caught
     THEN Return([Listed("pytest", <<>>, "pytest {test_id}", "pytest {test_id}", "pytest -x")
                    EXCEPT !.total = 0])
     ELSE IF runs[1].exc # "none" THEN Raise(runs[1].exc)
     ELSE Return(Listed("pytest", tests, "pytest {test_id}", "pytest {test_id}", "pytest -x"))

\* list_go_tests(path) when the run of the tool does what runs[1] says.
list_go_tests(path, runs) ==
  LET lines == split(runs[1].stdout)
      stripped == [k \in 1..Len(lines) |-> strip(lines[k])]
      names == SelectSeq(stripped, LAMBDA l : /\ ~(Prefix(l, 2) = "ok" \/ Prefix(l, 1) = "?")
                                              /\ (Prefix(l, 4) = "Test" \/ Prefix(l, 9) = "Benchmark"))
      tests == [k \in 1..Len(names) |-> TestItem(names[k], names[k], path)]
  IN IF runs[1].exc \in Caught
     THEN Return([Listed("go", <<>>, "go test -run {test_id} " \o path,
                         "go test -run '{test_id}.*' " \o path, "go test -failfast " \o path)
                    EXCEPT !.total = 0])
     ELSE IF runs[1].exc # "none" THEN Raise(runs[1].exc)
     ELSE Return(Listed("go", tests, "go test -run {test_id} " \o path,
                        "go test -run '{test_id}.*' " \o path, "go test -failfast " \o path))

\* list_playwright_tests(path) when the run of the tool does what runs[1] says.
list_playwright_tests(path, runs) ==
  LET \* r"[~^]\s+(\S+):(\d+):\d+\s+>\s+(.+)"
      pattern ==
        <<One("[~^]"), Plus("\\s"), Group(1, <<Plus("\\S")>>), Lit(":"), Group(2, <<Plus("\\d")>>),
          Lit(":"), Plus("\\d"), Plus("\\s"), Lit(">"), Plus("\\s"), Group(3, <<Plus(".")>>)>>
      item(line, m) ==
        [TestItem(group(line, m, 1) \o ":" \o str(int(group(line, m, 2))), strip(group(line, m, 3)),
                  group(line, m, 1)) EXCEPT !.line = Some(int(group(line, m, 2)))]
      items(line, m) == IF m.ok THEN <<item(line, m)>> ELSE <<>>
      lines == split(runs[1].stdout)
      tests == Flatten([k \in 1..Len(lines) |-> items(lines[k], re_search(pattern, lines[k]))], 1)
  IN IF runs[1].exc \in Caught
     THEN Return([Listed("playwright", <<>>, "npx playwright test {test_id}",
                         "npx playwright test {test_id}", "npx playwright test --max-failures=1")
                    EXCEPT !.total = 0])
     ELSE IF runs[1].exc # "none" THEN Raise(runs[1].exc)
     ELSE Return(Listed("playwright", tests, "npx playwright test {test_id}",
                        "npx playwright test {test_id}", "npx playwright test --max-failures=1"))

(***************************************************************************)
(* The texts the operations are applied to.                                *)
(***************************************************************************)
\* The most failure blocks in one report.
MaxBlocks == 2
\* The most signature lines in a text handed to the detector.
MaxSignatures == 4
\* The most words in an error message handed to the classifier.
MaxWords == 2
\* The most tests in a TestList.
MaxTests == 5

RECURSIVE Reports(_, _, _, _)
\* The reports with k failure blocks after prefix: block j is its header
\* line, Header[j], followed by one of details.
Reports(prefix, Header(_), details, k) ==
  IF k = 0 THEN {prefix}
  ELSE {r \o Header(k) \o d : r \in Reports(prefix, Header, details, k - 1), d \in details}

\* A jest/vitest report: "FAIL <file>", then for each failed test its line
\* "<U+2715> <name> (<n> ms)" with or without error text under it, then the end of
\* the report.
JestHeader(k) == "\n  # t" \o str(k) \o " (" \o str(k) \o " ms)"
JestDetails ==
  {"", "\n    expect(received).toBe(expected)", "\n    TypeError: x\n      at a.test.js:3:9"}
JestTails ==
  {"", "\n", "\n\nTests: 2 failed, 1 passed, 3 total\nTime: 1.5 s\n",
   "\nPASS src/b.test.js\n", "\n\n  @ t1\n\n    boom\n", "\nRan 1 test file.\n",
   "\nTime: 1.2.3 s\n", "\n ~ src/b.test.js (2)\n RERUN  rerun all\n", "\n  Running:  a.cy.js\n"}
JestOutputs ==
  {r \o t : r \in UNION {Reports("FAIL src/a.test.js", JestHeader, JestDetails, k) : k \in 0..MaxBlocks},
            t \in JestTails}

\* A go test report: for each failed test "--- FAIL: <name> (<t>s)" with or
\* without its log lines, then the end of the report.
GoHeader(k) == (IF k = 1 THEN "" ELSE "\n") \o "--- FAIL: T" \o str(k) \o " (0.00s)"
GoDetails == {"", "\n    a_test.go:9: boom"}
GoTails ==
  {"", "\n", "\nFAIL\nFAIL\tpkg\t0.012s\n", "\n--- PASS: T9 (0.00s)\nok  \tpkg\t1.5s",
   "\nexit in 1..2s"}
GoOutputs ==
  {r \o t : r \in UNION {Reports("", GoHeader, GoDetails, k) : k \in 0..MaxBlocks}, t \in GoTails}

\* A pytest report: its short summary lines "FAILED <file>::<test>", then
\* the end of the report.
PytestHeader(k) == (IF k = 1 THEN "" ELSE "\n") \o "FAILED t.py::test_" \o str(k) \o " - boom"
PytestDetails == {"", "\n  assert 1 == 2"}
PytestTails ==
  {"", "\n", "\n=== 1 failed, 2 passed, 1 skipped in 0.12s ===", "\n2 passed in 1..2s"}
PytestOutputs ==
  {r \o t : r \in UNION {Reports("", PytestHeader, PytestDetails, k) : k \in 0..MaxBlocks},
            t \in PytestTails}

\* A playwright report: for each failed test
\* "<n>) [<project>] <U+203A> <file>:<line>:<col> <U+203A> <title>" with or without its error,
\* then the end of the report.
PlaywrightHeader(k) ==
  (IF k = 1 THEN "" ELSE "\n") \o "  " \o str(k) \o ") [chromium] > a.spec.ts:" \o str(k) \o ":5 > logs in"
PlaywrightDetails == {"", "\n\n    Error: timed out", "\n\n    browserType.launch: ENOENT"}
PlaywrightTails == {"", "\n", "\n  1 failed\n  2 passed (3.1s)\n", "\n  2 passed, 1 failed\n"}
PlaywrightOutputs ==
  {r \o t : r \in UNION {Reports("", PlaywrightHeader, PlaywrightDetails, k) : k \in 0..MaxBlocks},
            t \in PlaywrightTails}

Outputs == JestOutputs \cup GoOutputs \cup PytestOutputs \cup PlaywrightOutputs

\* The framework arguments: None (auto-detect), the empty string, the enum's
\* values, and a name that is no value of the enum.
FrameworkArgs == {None, Some("")} \cup {Some(f) : f \in FrameworkValues} \cup {Some("mocha")}

\* Lines that each match one or two of the detector's patterns.
Signatures ==
  <<"expect(x)", "PASSED", "~ ok", "RERUN", "=== s ===", "go test", "--- FAIL: T",
    "browserType", "playwright", "cypress", "Running: a.cy.js">>

\* The lines of Signatures at the positions in ks, in order, one per line.
SignatureText(ks) ==
  join("\n", SelectSeq([k \in 1..Len(Signatures) |-> IF k \in ks THEN Signatures[k] ELSE ""],
                       LAMBDA l : l # ""))

DetectOutputs ==
  {SignatureText(ks) : ks \in {x \in SUBSET (1..Len(Signatures)) : Cardinality(x) <= MaxSignatures}}

\* Words of error messages: keywords of every category in the case the
\* frameworks print them, words that hold a keyword ("environment" holds
\* "env"), the halves of two-word keywords, and a word with no keyword.
Vocabulary ==
  {"Expected", "AssertionError", "TypeError", "Timeout", "exceeded", "mock", "stub", "ENOENT",
   "environment", "SyntaxError", "boom", "to", "be", "timed", "out"}

RECURSIVE Sentences(_)
\* The messages of n words, a blank between two words.
Sentences(n) ==
  IF n = 0 THEN {""}
  ELSE IF n = 1 THEN Vocabulary
  ELSE {m \o " " \o w : m \in Sentences(n - 1), w \in Vocabulary}

Messages == UNION {Sentences(n) : n \in 0..MaxWords}

\* The tests of the lists.
Items ==
  {TestItem("a.test.js", "a", "a.test.js"), TestItem("b.test.js", "b", "b.test.js"),
   TestItem("c.test.js", "c", "c.test.js")}

\* The framework tags of the lists: the five the listers give, and one that
\* generate_remaining_tests has no command for.
ListFrameworks == {"jest", "vitest", "pytest", "go", "playwright", "mocha"}

\* The lists: total is the number of tests, as every lister sets it.
TestLists ==
  {TestList(fw, tests, "run {test_id}", "from {test_id}", "bail") :
     fw \in ListFrameworks, tests \in UNION {[1..n -> Items] : n \in 0..MaxTests}}

\* The failed_index arguments: --remaining-from takes any integer.
FailedIndexes == (0 - MaxTests - 1)..(MaxTests + 1)

\* ---- what the listers meet ---------------------------------------------

\* A listing has at most MaxLines lines (or elements of a JSON array).
MaxLines == 2

\* What the lister may meet: its path argument, the outcomes of the runs
\* it makes, the files a scan of path finds.  A run prints a listing and
\* exits with 0 or 1, or it fails: the tool is not installed (the shell
\* exits with 127), it exits with 1 and prints nothing, the run times out,
\* the shell is not found, and (for the listers that run the tool with
\* cwd=path) path is not a directory.
ListerEnvs(lister) ==
  LET Seqs(pool) == UNION {[1..n -> pool] : n \in 0..MaxLines}
      Texts(pool) == {join("", [k \in 1..Len(lines) |-> lines[k] \o "\n"]) : lines \in Seqs(pool)}
      Failures ==
        {Outcome("none", 127, ""), Outcome("none", 1, ""), Outcome("TimeoutExpired", 0, ""),
         Outcome("FileNotFoundError", 0, "")}
      NotADirectory == Outcome("NotADirectoryError", 0, "")
      Listings(pool) == {Outcome("none", rc, t) : rc \in {0, 1}, t \in Texts(pool)}
      OneRun(path, runs) == {[path |-> path, runs |-> <<r>>, files |-> <<>>] : r \in runs}
      \* list_jest_tests: the run leaves the loop to the next runner
      Continues(run) == run.exc \in Caught \/ (run.exc = "none" /\ run.returncode # 0)
      JestArrays ==
        {"[" \o join(", ", elements) \o "]" :
           elements \in Seqs({"\"/app/a.test.js\"", "{\"name\": \"/app/src/b.spec.ts\"}",
                              "{\"status\": \"passed\"}", "3", "{\"name\": null}"})}
      JestStdouts ==
        JestArrays \cup {"{\"numTotalTests\": 2, \"testResults\": " \o a \o "}\n" : a \in JestArrays}
          \cup Texts({"/app/a.test.js", "  /app/src/b.spec.ts ", "No tests found"})
          \cup {"null", "{\"numTotalTests\": 2}", "{\"testResults\": 3}",
                "{\"testResults\": {\"a.test.js\": 1}}"}
      JestRuns ==
        {Outcome("none", 0, s) : s \in JestStdouts} \cup {Outcome("none", 1, "[\"/app/a.test.js\"]")}
          \cup Failures \cup {NotADirectory}
      JestFiles == Seqs({"a.test.ts", "src/b.spec.js", "node_modules/x/c.test.js", "README.md"})
  IN CASE lister = "list_jest_tests" ->
            \* the second runner is run when the first leaves it the turn, and
            \* path is scanned when the second does too
            OneRun(".", {r \in JestRuns : ~Continues(r)})
              \cup {[path |-> ".", runs |-> <<r1, r2>>, files |-> <<>>] :
                      r1 \in {r \in JestRuns : Continues(r)}, r2 \in {r \in JestRuns : ~Continues(r)}}
              \cup {[path |-> ".", runs |-> <<r1, r2>>, files |-> fs] :
                      r1 \in {r \in JestRuns : Continues(r)}, r2 \in {r \in JestRuns : Continues(r)},
                      fs \in JestFiles}
       [] lister = "list_pytest_tests" ->
            OneRun(".", Failures \cup Listings(
              {"tests/test_a.py::test_one", "  tests/test_a.py::TestB::test_two ", "<Module a::b>",
               "pkg/t.py::A::B::test_c", "2 tests collected in 0.01s"}))
       [] lister = "list_go_tests" ->
            UNION {OneRun(p, Failures \cup Listings(
                     {"TestAlpha", "  BenchmarkSort", "ok  \texample.com/pkg\t0.004s",
                      "?   \texample.com/cmd\t[no test files]", "ExampleHello"})) :
                   p \in {"./...", "./pkg"}}
       [] lister = "list_playwright_tests" ->
            OneRun(".", Failures \cup {NotADirectory} \cup Listings(
              {"Listing tests:", "  ~  tests/example.spec.ts:007:5 > basic > test ",
               "^ a.spec.ts:12:3 > second", "  [chromium] > a.spec.ts:3:5 > has title",
               "Total: 2 tests in 1 file"}))

(***************************************************************************)
(* The calls.                                                              *)
(***************************************************************************)
NoTestList ==
  [framework |-> "", total |-> 0, tests |-> <<>>, run_single_command |-> "",
   run_from_command |-> "", bail_command |-> ""]

\* No lister is called: no path, no run, no file.
NoEnv == [path |-> "", runs |-> <<>>, files |-> <<>>]

\* No call yet: the arguments o, m and l, nothing returned.
InitWith(o, m, l) ==
  /\ op = "init"
  /\ env = NoEnv
  /\ output = o
  /\ framework = None
  /\ error_message = m
  /\ test_list = l
  /\ failed_index = 0
  /\ ret = Return(None)

Init == \E o \in Outputs : InitWith(o, "", NoTestList)

DetectFramework ==
  /\ op = "init"
  /\ op' = "detect_framework"
  /\ ret' = Return(detect_framework(output))
  /\ UNCHANGED <<output, framework, error_message, test_list, failed_index, env>>

ParseJest ==
  /\ op = "init"
  /\ op' = "parse_jest"
  /\ ret' = parse_jest(output)
  /\ UNCHANGED <<output, framework, error_message, test_list, failed_index, env>>

ParsePytest ==
  /\ op = "init"
  /\ op' = "parse_pytest"
  /\ ret' = parse_pytest(output)
  /\ UNCHANGED <<output, framework, error_message, test_list, failed_index, env>>

ParseGo ==
  /\ op = "init"
  /\ op' = "parse_go"
  /\ ret' = parse_go(output)
  /\ UNCHANGED <<output, framework, error_message, test_list, failed_index, env>>

ParsePlaywright ==
  /\ op = "init"
  /\ op' = "parse_playwright"
  /\ ret' = parse_playwright(output)
  /\ UNCHANGED <<output, framework, error_message, test_list, failed_index, env>>

ParseOutput ==
  /\ op = "init"
  /\ \E fw \in FrameworkArgs :
       /\ op' = "parse_output"
       /\ framework' = fw
       /\ ret' = parse_output(output, fw)
  /\ UNCHANGED <<output, error_message, test_list, failed_index, env>>

ClassifyFailure ==
  /\ op = "init"
  /\ op' = "classify_failure"
  /\ ret' = Return(classify_failure(error_message))
  /\ UNCHANGED <<output, framework, error_message, test_list, failed_index, env>>

GenerateRemainingTests ==
  /\ op = "init"
  /\ \E i \in FailedIndexes :
       /\ op' = "generate_remaining_tests"
       /\ failed_index' = i
       /\ ret' = Return(generate_remaining_tests(test_list, i))
  /\ UNCHANGED <<output, framework, error_message, test_list, env>>

\* parse_test_output.py's extractors and assembler on a report.
Next == ParseJest \/ ParsePytest \/ ParseGo \/ ParsePlaywright \/ ParseOutput

Spec == Init /\ [][Next]_vars

\* The detector on a text of signature lines.
InitDetect == \E o \in DetectOutputs : InitWith(o, "", NoTestList)

NextDetect == DetectFramework

SpecDetect == InitDetect /\ [][NextDetect]_vars

\* The classifier on an error message.
InitClassify == \E m \in Messages : InitWith("", m, NoTestList)

NextClassify == ClassifyFailure

SpecClassify == InitClassify /\ [][NextClassify]_vars

\* generate_remaining_tests on a TestList.
InitRemaining == \E l \in TestLists : InitWith("", "", l)

NextRemaining == GenerateRemainingTests

SpecRemaining == InitRemaining /\ [][NextRemaining]_vars

\* The listers, each in what it may meet.
ListJestTests ==
  /\ op = "init"
  /\ \E e \in ListerEnvs("list_jest_tests") :
       /\ env' = e
       /\ ret' = list_jest_tests(e.path, e.runs, e.files)
  /\ op' = "list_jest_tests"
  /\ UNCHANGED <<output, framework, error_message, test_list, failed_index>>

ListPytestTests ==
  /\ op = "init"
  /\ \E e \in ListerEnvs("list_pytest_tests") :
       /\ env' = e
       /\ ret' = list_pytest_tests(e.path, e.runs)
  /\ op' = "list_pytest_tests"
  /\ UNCHANGED <<output, framework, error_message, test_list, failed_index>>

ListGoTests ==
  /\ op = "init"
  /\ \E e \in ListerEnvs("list_go_tests") :
       /\ env' = e
       /\ ret' = list_go_tests(e.path, e.runs)
  /\ op' = "list_go_tests"
  /\ UNCHANGED <<output, framework, error_message, test_list, failed_index>>

ListPlaywrightTests ==
  /\ op = "init"
  /\ \E e \in ListerEnvs("list_playwright_tests") :
       /\ env' = e
       /\ ret' = list_playwright_tests(e.path, e.runs)
  /\ op' = "list_playwright_tests"
  /\ UNCHANGED <<output, framework, error_message, test_list, failed_index>>

\* The listers alone, from the state before any call.
InitList == InitWith("", "", NoTestList)
NextList == ListJestTests \/ ListPytestTests \/ ListGoTests \/ ListPlaywrightTests
SpecList == InitList /\ [][NextList]_vars

(***************************************************************************)
(* The properties.                                                         *)
(***************************************************************************)
Extractors == {"parse_jest", "parse_pytest", "parse_go", "parse_playwright"}

\* The tags with an extractor of their own or a borrowed one.
SupportedTags == {"jest", "vitest", "pytest", "go", "playwright", "cypress"}

\* The tag parse_output is to resolve: the framework argument when one is
\* given, otherwise what the detector says of the text.
ResolvedTag == IF framework # None /\ framework[1] # "" THEN framework[1] ELSE detect_framework(output)

\* C1: for every framework argument that is none of the known tags,
\* parse_output does not raise and returns a TestResult whose framework field
\* is the argument itself.
C1_UnknownOverrideFallsBack ==
  (op = "parse_output" /\ framework # None /\ framework[1] # "" /\ framework[1] \notin FrameworkValues)
    => /\ ret.exc = "none"
       /\ ret.val.framework = framework[1]

\* C2: every extractor returns a TestResult for every text and never raises,
\* also when the duration pattern captures digits and dots that are no
\* number; for the empty text all four counts are 0, the duration is absent
\* and there are no failures.
C2_ExtractorsNeverRaise ==
  op \in Extractors
    => /\ ret.exc = "none"
       /\ output = "" =>
            /\ ret.val.total = 0 /\ ret.val.passed = 0 /\ ret.val.failed = 0 /\ ret.val.skipped = 0
            /\ ret.val.duration_ms = None
            /\ ret.val.failures = <<>>

\* "<U+2715> <name> (<n> ms)", the line of one failed test in a jest block.
JestTestLine ==
  <<One("[%#]"), Plus("\\s"), Group(1, <<LazyPlus(".")>>), Plus("\\s"), Lit("("),
    Plus("\\d"), Star("\\s"), Lit("ms)")>>

\* "--- FAIL: <name> (<t>s)", the line of one failed go test.
GoFailLine ==
  <<Lit("--- FAIL:"), Plus("\\s"), Group(1, <<Plus("\\S")>>), Plus("\\s"), Lit("("),
    Plus("[\\d.]"), Lit("s)")>>

\* The names on the lines of s that match line, in order of appearance.
BlockNames(line, s) ==
  LET ms == re_finditer(line, s) IN [k \in 1..Len(ms) |-> group(s, ms[k], 1)]

\* The test names of the FailedTest records of a result, in order.
FailureNames(result) == [k \in 1..Len(result.failures) |-> result.failures[k].test_name]

\* C3: for a text with k failure blocks (a jest FAIL block with k test lines,
\* k go FAIL lines), whatever lies between the blocks and after the last
\* one, the extractor returns exactly k FailedTest records, one per block, in
\* order of appearance.
C3_OneRecordPerBlock ==
  /\ (op = "parse_jest" /\ output \in JestOutputs /\ ret.exc = "none")
       => FailureNames(ret.val) = BlockNames(JestTestLine, output)
  /\ (op = "parse_go" /\ output \in GoOutputs /\ ret.exc = "none")
       => FailureNames(ret.val) = BlockNames(GoFailLine, output)

\* C4: for every supported tag F and every text, parse_output returns a
\* result whose framework field is F, both when F is the framework argument
\* and when there is none and the detector says F.
C4_SupportedTagIsResultTag ==
  (op = "parse_output" /\ (framework = None \/ framework[1] \in SupportedTags)
     /\ ResolvedTag \in SupportedTags)
    => /\ ret.exc = "none"
       /\ ret.val.framework = ResolvedTag

\* C5: the framework field of every result parse_output returns is the
\* resolved tag, also when the resolved tag is unknown and the jest
\* extractor ran as the fallback.
C5_ResultTagIsResolvedTag ==
  (op = "parse_output" /\ ret.exc = "none") => ret.val.framework = ResolvedTag

\* C6: total, passed, failed and skipped of every TestResult an extractor
\* returns are non-negative, also when parse_jest derives passed as total
\* minus the number of failures.
C6_CountsNonNegative ==
  (op \in Extractors /\ ret.exc = "none")
    => ret.val.total >= 0 /\ ret.val.passed >= 0 /\ ret.val.failed >= 0 /\ ret.val.skipped >= 0

\* The rerun command of failure f in a result tagged tag: the template of
\* that framework, filled from f's file, test_name and line_number.
IsRerunTemplate(tag, f, cmd) ==
  CASE tag \in {"jest", "vitest", "cypress", "unknown"} ->
         /\ Contains(cmd, IF tag = "unknown" THEN "jest" ELSE tag)
         /\ Contains(cmd, " --testNamePattern=\"" \o f.test_name \o "\"")
    [] tag = "pytest" -> cmd = "pytest " \o f.file \o "::" \o f.test_name
    [] tag = "go" -> cmd = "go test -run " \o f.test_name \o " ./..."
    [] tag = "playwright" ->
         /\ f.line_number # None
         /\ cmd = "npx playwright test " \o f.file \o ":" \o str(f.line_number[1])

\* C7: in every result parse_output returns, each failure's rerun_command is
\* the template of the result's own framework tag: it names that framework's
\* runner and is built from that failure's file, test_name and line_number.
C7_RerunCommandOfOwnFramework ==
  (op = "parse_output" /\ ret.exc = "none")
    => \A k \in 1..Len(ret.val.failures) :
         LET f == ret.val.failures[k]
         IN f.rerun_command # None /\ IsRerunTemplate(ret.val.framework, f, f.rerun_command[1])

\* The frameworks in the order the detector declares them.
DeclaredOrder == <<"jest", "vitest", "pytest", "go", "playwright", "cypress">>

\* How many of the signature patterns of the k-th declared framework match
\* the text, case ignored.
Matching(k, text) ==
  Cardinality({i \in 1..3 : re_search_ignorecase(patterns[k].pats[i], text).ok})

\* C8: detect_framework returns the first framework in the declared order
\* jest, vitest, pytest, go, playwright, cypress with at least 2 of its 3
\* signature patterns matching the text, however many patterns a later one
\* matches, and unknown exactly when no framework has 2 matching patterns.
C8_FirstFrameworkAtThreshold ==
  op = "detect_framework" =>
    /\ ret.exc = "none"
    /\ \A k \in 1..Len(DeclaredOrder) : patterns[k].framework = DeclaredOrder[k]
    /\ ret.val = "unknown" <=> \A k \in 1..Len(DeclaredOrder) : Matching(k, output) < 2
    /\ \A k \in 1..Len(DeclaredOrder) :
         (Matching(k, output) >= 2 /\ \A j \in 1..(k - 1) : Matching(j, output) < 2)
           => ret.val = DeclaredOrder[k]

\* A text on which vitest has 2 matching patterns and cypress, declared
\* later, all 3: the detector says vitest.
C8_EarlierBeatsFullerMatch ==
  /\ op = "detect_framework"
  /\ Matching(2, output) = 2
  /\ Matching(6, output) = 3
  /\ ret.val = "vitest"

\* The categories in the order the classifier tries them.
PriorityOrder == <<"assertion", "type_error", "timeout", "mock_issue", "environment", "syntax">>

\* The message has a keyword of the k-th category, case ignored.
HasKeyword(k, message) ==
  \E kw \in FailureKeywords[k].kws : Contains(lower(message), lower(kw))

\* C9: classify_failure always returns, and what it returns is the first
\* category in the order assertion, type_error, timeout, mock_issue,
\* environment, syntax with a keyword that is a case-insensitive substring of
\* the message, unknown when no category has one.
C9_FirstCategoryInPriorityOrder ==
  op = "classify_failure" =>
    /\ ret.exc = "none"
    /\ \E t \in 1..Len(FailureType) : ret.val = FailureType[t]
    /\ \A k \in 1..Len(PriorityOrder) : FailureKeywords[k].type = PriorityOrder[k]
    /\ (\A k \in 1..Len(PriorityOrder) : ~HasKeyword(k, error_message)) => ret.val = "unknown"
    /\ \A k \in 1..Len(PriorityOrder) :
         (HasKeyword(k, error_message) /\ \A j \in 1..(k - 1) : ~HasKeyword(j, error_message))
           => ret.val = PriorityOrder[k]

\* A message with a timeout keyword before an assertion keyword is
\* classified assertion.
C9_AssertionBeatsTimeout ==
  /\ op = "classify_failure"
  /\ error_message = "Timeout AssertionError"
  /\ ret.val = "assertion"

\* C10: for a TestList of n tests and 0 <= failed_index < n,
\* generate_remaining_tests returns as remaining_tests the items at (0-based)
\* indices failed_index+1 .. n-1 of the list in their order, with
\* remaining_count = n - failed_index - 1, and leaves the TestList as it was.
C10_RemainingIsSuffix ==
  [][(op' = "generate_remaining_tests" /\ 0 <= failed_index' /\ failed_index' < Len(test_list.tests))
       => LET n == Len(test_list.tests)
              i == failed_index'
          IN /\ ret'.exc = "none"
             /\ ret'.val.remaining_count = n - i - 1
             /\ ret'.val.remaining_tests = [k \in 1..(n - i - 1) |-> test_list.tests[i + 1 + k]]
             /\ test_list' = test_list]_vars

\* Five tests, the failed one at index 2 and the two behind it all
\* different: the call returns the 2 items at indices 3 and 4.
C10_FiveTestsFailedAtTwo ==
  /\ op = "generate_remaining_tests"
  /\ Len(test_list.tests) = 5
  /\ failed_index = 2
  /\ test_list.tests[3] # test_list.tests[4]
  /\ test_list.tests[4] # test_list.tests[5]
  /\ ret.val.remaining_count = 2
  /\ ret.val.remaining_tests = <<test_list.tests[4], test_list.tests[5]>>

\* The tags generate_remaining_tests has a command for.
CommandTags == {"jest", "vitest", "pytest", "go", "playwright"}

\* The ids of the tests of a sequence, in order.
Ids(tests) == [k \in 1..Len(tests) |-> tests[k].id]

\* s ends with tail.
EndsWith(s, tail) == Len(tail) <= Len(s) /\ SubSeq(s, Len(s) - Len(tail) + 1, Len(s)) = tail

\* C11: run_remaining_command is null exactly when no test remains (then
\* remaining_count is 0) or the list's framework is none of jest, vitest,
\* pytest, go, playwright (then count and tests are still reported);
\* otherwise it names the ids of the remaining tests in order, joined by
\* blanks for jest, vitest, pytest and playwright and by "|" into one -run
\* pattern for go.
C11_CommandOfRemainingIds ==
  op = "generate_remaining_tests" =>
    LET r == ret.val
        ids == Ids(r.remaining_tests)
    IN /\ r.run_remaining_command = None
            <=> (r.remaining_tests = <<>> \/ test_list.framework \notin CommandTags)
       /\ r.remaining_tests = <<>> => r.remaining_count = 0
       /\ r.remaining_count = Len(r.remaining_tests)
       /\ (r.run_remaining_command # None /\ test_list.framework # "go")
            => EndsWith(r.run_remaining_command[1], " " \o join(" ", ids))
       /\ (r.run_remaining_command # None /\ test_list.framework = "go")
            => Contains(r.run_remaining_command[1], " -run '" \o join("|", ids) \o "' ")

\* A go list with two different tests behind the failed one: the command
\* holds one -run pattern of the two ids.
C11_GoPatternOfTwoIds ==
  /\ op = "generate_remaining_tests"
  /\ test_list.framework = "go"
  /\ failed_index = 0
  /\ Len(test_list.tests) = 3
  /\ test_list.tests[2].id # test_list.tests[3].id
  /\ ret.val.run_remaining_command =
       Some("go test -run '" \o test_list.tests[2].id \o "|" \o test_list.tests[3].id \o "' ./...")
\* The listers and the framework tags each gives its list.
Listers == {"list_jest_tests", "list_pytest_tests", "list_go_tests", "list_playwright_tests"}
ListerTags ==
  CASE op = "list_jest_tests" -> {"jest", "vitest"}
    [] op = "list_pytest_tests" -> {"pytest"}
    [] op = "list_go_tests" -> {"go"}
    [] op = "list_playwright_tests" -> {"playwright"}

\* The run found no tool: it timed out, the command was not found, or it
\* ended with a non-zero exit status.
Unavailable(run) ==
  run.exc \in {"TimeoutExpired", "FileNotFoundError"} \/ (run.exc = "none" /\ run.returncode # 0)
ToolUnavailable == op \in Listers /\ \A k \in 1..Len(env.runs) : Unavailable(env.runs[k])

\* A TestList of the lister's framework with its three command templates.
WellFormed(l) ==
  /\ l.framework \in ListerTags
  /\ Contains(l.run_single_command, "{test_id}")
  /\ Contains(l.run_from_command, "{test_id}")
  /\ l.bail_command # ""

\* The test files a scan of path keeps.
ScannedTestFiles ==
  {env.files[k] : k \in {j \in 1..Len(env.files) :
      /\ \E e \in {".test.ts", ".test.js", ".spec.ts", ".spec.js"} : EndsWith(env.files[j], e)
      /\ ~Contains(env.files[j], "node_modules")}}

\* C12 as stated: a lister whose tool is unavailable (not installed,
\* non-zero exit) or times out raises nothing and returns a well-formed
\* TestList of its framework with total 0, no tests and its three command
\* templates; and every TestList a lister returns has total = len(tests).
C12_EmptyListWhenToolUnavailable ==
  /\ ToolUnavailable =>
       /\ ret.exc = "none"
       /\ WellFormed(ret.val)
       /\ ret.val.total = 0
       /\ ret.val.tests = <<>>
  /\ (op \in Listers /\ ret.exc = "none") => ret.val.total = Len(ret.val.tests)

\* C12, amended: a lister whose every run of the tool times out, finds no
\* command or ends with a non-zero exit status raises nothing and returns
\* a well-formed TestList of its framework with its three command
\* templates and total = len(tests).  list_pytest_tests, list_go_tests and
\* list_playwright_tests read the stdout of a run whatever its exit status,
\* and return no tests when the run raised or printed nothing;
\* list_jest_tests returns the test files a scan of path finds outside
\* node_modules.  Every TestList a lister returns has total = len(tests).
C12_ListOfWhatWasFound ==
  /\ ToolUnavailable =>
       /\ ret.exc = "none"
       /\ WellFormed(ret.val)
       /\ ret.val.total = Len(ret.val.tests)
       /\ (op # "list_jest_tests" /\ (env.runs[1].exc # "none" \/ env.runs[1].stdout = ""))
            => ret.val.tests = <<>>
       /\ op = "list_jest_tests"
            => /\ ret.val.framework = "jest"
               /\ {ret.val.tests[k].id : k \in 1..Len(ret.val.tests)} = ScannedTestFiles
  /\ (op \in Listers /\ ret.exc = "none") => ret.val.total = Len(ret.val.tests)

\* vitest times out, jest is not installed, and the scan of path finds one
\* test file outside node_modules: the list holds it.
C12_JestScansWhenBothRunnersFail ==
  /\ op = "list_jest_tests"
  /\ env.runs = <<Outcome("TimeoutExpired", 0, ""), Outcome("none", 127, "")>>
  /\ env.files = <<"node_modules/x/c.test.js", "a.test.ts">>
  /\ ret.exc = "none"
  /\ ret.val.framework = "jest"
  /\ ret.val.total = 1
  /\ ret.val.tests = <<TestItem("a.test.ts", "a.test", "a.test.ts")>>

\* The tests of a list at the 0-based positions greater than i, in order.
After(tests, i) ==
  LET from == IF i < 0 THEN 0 ELSE IF i + 1 > Len(tests) THEN Len(tests) ELSE i + 1
  IN [k \in 1..(Len(tests) - from) |-> tests[from + k]]

\* C13: for every integer failed_index, negative or beyond the list,
\* generate_remaining_tests returns as remaining_tests the tests at the
\* 0-based positions greater than failed_index, and their number as
\* remaining_count: the whole list for a negative failed_index, nothing for
\* failed_index >= length - 1.
C13_AfterAnyIndex ==
  op = "generate_remaining_tests" =>
    /\ ret.exc = "none"
    /\ ret.val.remaining_tests = After(test_list.tests, failed_index)
    /\ ret.val.remaining_count = Len(After(test_list.tests, failed_index))

====
